---- MODULE Spec2Model ----
(***************************************************************************)
(* A model of the retrieval core of AIQuerySystem: the TF-IDF vectorizer   *)
(* (SimpleEmbeddings), the vector index (VectorStore) with its pickle      *)
(* snapshot, the role filter (RoleFilter) and the orchestration in         *)
(* AIQuerySystem.initialize / AIQuerySystem.query.                         *)
(*                                                                         *)
(* Texts are sequences of words (what re.findall(r'\b\w+\b') leaves of a   *)
(* text, before lower-casing).  Floats are fixed-point integers: a TF-IDF  *)
(* weight tf * idf is stored in units of 1/TfScale (tf) times 1/10 (idf),  *)
(* which is exact because TfScale is a multiple of every text length used. *)
(***************************************************************************)
EXTENDS Integers, Sequences, FiniteSets, TLC

VARIABLES
    vectors,        \* VectorStore.vectors: list of vectors, row id = position
    metadata,       \* VectorStore.metadata: list of chunk dicts
    vocabulary,     \* SimpleEmbeddings.vocabulary: token -> column index
    idf_scores,     \* SimpleEmbeddings.idf_scores: token -> idf
    fitted,         \* SimpleEmbeddings.fitted
    initialized,    \* AIQuerySystem.initialized
    file,           \* what is stored at vector_store_path
    outcome,        \* what the last call did and returned
    init_completed, \* history: some initialize call has returned normally
    writer,         \* a thread rebuilding or reloading the live store: pc and locals
    reader,         \* a thread inside similarity_search: pc and locals
    call            \* a library function called on its own: arguments, locals, result

vars == <<vectors, metadata, vocabulary, idf_scores, fitted, initialized,
          file, outcome, init_completed, writer, reader, call>>

(***************************************************************************)
(* Bounds of the model.                                                    *)
(***************************************************************************)
MaxChunks == 2      \* chunks one process_documents / add_documents call supplies
MaxRows == 2        \* rows the index may hold before further builds are cut off
MaxK == 2           \* largest top_k asked for; the smallest is -MaxK

(***************************************************************************)
(* Generic helpers.                                                        *)
(***************************************************************************)
Min(a, b) == IF a <= b THEN a ELSE b

Max(a, b) == IF a >= b THEN a ELSE b

Range(s) == {s[i] : i \in DOMAIN s}

RECURSIVE SumSeq(_)
SumSeq(s) == IF s = <<>> THEN 0 ELSE Head(s) + SumSeq(Tail(s))

RECURSIVE Fact(_)
Fact(n) == IF n <= 1 THEN 1 ELSE n * Fact(n - 1)

\* All sequences over S of length at most n.
SeqsUpTo(S, n) == UNION {[1..m -> S] : m \in 0..n}

(***************************************************************************)
(* The corpus the environment can supply.                                  *)
(***************************************************************************)
Lower ==
    [w \in {"Firewall", "firewall", "cloud", "Firewalls", "block", "attacks",
            "Passwords", "must", "be", "encrypted", "configuration"} |->
        CASE w = "Firewall"  -> "firewall"
          [] w = "Firewalls" -> "firewalls"
          [] w = "Passwords" -> "passwords"
          [] OTHER           -> w]

Words == DOMAIN Lower

\* What process_documents returns for one chunk: text, source, chunk_id
\* (file_path is source prefixed by the directory and is left out).
ChunkPool ==
    { [text |-> <<"Firewall", "cloud">>, source |-> "cybersecurity.txt", chunk_id |-> 0],
      [text |-> <<"cloud">>,             source |-> "cloud_devops.txt",  chunk_id |-> 0],
      [text |-> <<"cloud">>,             source |-> "ai_ml_basics.txt",  chunk_id |-> 0] }

\* The chunk lists process_documents can return: files in listing order, the
\* chunks of one file adjacent and numbered from 0.
Corpora ==
    { c \in SeqsUpTo(ChunkPool, MaxChunks) :
        \A i \in DOMAIN c :
            c[i].chunk_id = Cardinality({j \in 1..(i - 1) : c[j].source = c[i].source})
            /\ (c[i].chunk_id > 0 => c[i - 1].source = c[i].source) }

Questions == { <<"Firewall">>, <<"firewall", "cloud">> }

\* The worked example: one chunk of cybersecurity.txt and one question.
ExampleChunk ==
    [text |-> <<"Firewalls", "block", "attacks", "Passwords", "must", "be", "encrypted">>,
     source |-> "cybersecurity.txt", chunk_id |-> 0]

ExampleQuestion == <<"firewall", "configuration">>

(***************************************************************************)
(* SimpleEmbeddings.                                                       *)
(***************************************************************************)
\* The unit of a term frequency is 1/TfScale: a multiple of every text length
\* in use, so that count / total is exact.
TfScale ==
    LET lens == {Len(c.text) : c \in ChunkPool \cup {ExampleChunk}}
                    \cup {Len(q) : q \in Questions \cup {ExampleQuestion}}
        top == CHOOSE n \in lens : \A m \in lens : m <= n
    IN  CHOOSE n \in 1..Fact(top) :
            /\ \A m \in lens : n % m = 0
            /\ \A k \in 1..(n - 1) : \E m \in lens : k % m # 0

\* math.log(n / d) in tenths, for the document counts in reach.
Ln(n, d) ==
    CASE n = d              -> 0
      [] n = 2 * d          -> 7     \* ln 2   = 0.693
      [] n = 3 * d          -> 11    \* ln 3   = 1.099
      [] 2 * n = 3 * d      -> 4     \* ln 3/2 = 0.405
      [] n = 4 * d          -> 14    \* ln 4   = 1.386
      [] 3 * n = 4 * d      -> 3     \* ln 4/3 = 0.288

\* _tokenize: lower-case, then the word runs.
Tokenize(text) == [i \in DOMAIN text |-> Lower[text[i]]]

\* _compute_tf: token -> count / total, in units of 1/TfScale.
ComputeTf(tokens) ==
    [t \in Range(tokens) |->
        (Cardinality({i \in DOMAIN tokens : tokens[i] = t}) * TfScale) \div Len(tokens)]

\* _compute_idf: token -> log(doc_count / documents holding the token).
ComputeIdf(documents) ==
    LET toks(i) == Range(Tokenize(documents[i]))
        all == UNION {toks(i) : i \in DOMAIN documents}
    IN  [t \in all |->
            Ln(Len(documents), Cardinality({i \in DOMAIN documents : t \in toks(i)}))]

\* The tokens fit collects into its vocabulary.
CorpusTokens(documents) == UNION {Range(Tokenize(documents[i])) : i \in DOMAIN documents}

\* The column assignments enumerate(list(set(all_tokens))) can produce: the
\* iteration order of a set of strings is not fixed by the code.
VocabularyChoices(tokens) ==
    {v \in [tokens -> 0..(Cardinality(tokens) - 1)] :
        \A s, t \in tokens : s # t => v[s] # v[t]}

\* fit: the model state after fitting `documents` with column assignment v.
Fit(documents, v) ==
    [vocabulary |-> v, idf_scores |-> ComputeIdf(documents), fitted |-> TRUE]

\* transform on a fitted model (the caller checks `fitted`): a list of
\* len(vocabulary) weights, column idx at position idx + 1.
TransformVector(voc, idf, text) ==
    LET tf == ComputeTf(Tokenize(text))
        n == Cardinality(DOMAIN voc)
        tokenAt(c) == CHOOSE t \in DOMAIN voc : voc[t] = c - 1
    IN  [c \in 1..n |->
            LET t == tokenAt(c)
            IN  IF t \in DOMAIN tf
                THEN tf[t] * (IF t \in DOMAIN idf THEN idf[t] ELSE 0)
                ELSE 0]

\* transform without the `if not self.fitted` check.
TransformUnguarded(voc, idf, fit, text) ==
    [error |-> "none", vector |-> TransformVector(voc, idf, text)]

\* transform: raises ValueError when the model is not fitted.
Transform(voc, idf, fit, text) ==
    IF ~fit
    THEN [error |-> "ValueError", vector |-> <<>>]
    ELSE [error |-> "none", vector |-> TransformVector(voc, idf, text)]

(***************************************************************************)
(* VectorStore.  A store value is the record of the five fields the class  *)
(* and its embeddings model hold.                                          *)
(***************************************************************************)
Store(vecs, meta, voc, idf, fit) ==
    [vectors |-> vecs, metadata |-> meta, vocabulary |-> voc,
     idf_scores |-> idf, fitted |-> fit]

EmptyVocabulary == [t \in {} |-> 0]

\* VectorStore.__init__ with SimpleEmbeddings.__init__.
FreshStore == Store(<<>>, <<>>, EmptyVocabulary, EmptyVocabulary, FALSE)

CurrentStore == Store(vectors, metadata, vocabulary, idf_scores, fitted)

Texts(documents) == [i \in DOMAIN documents |-> documents[i].text]

\* add_documents: fit_transform over the new texts, then both lists extended.
AddDocuments(st, documents, v) ==
    LET m == Fit(Texts(documents), v)
        new == [i \in DOMAIN documents |->
                    TransformVector(m.vocabulary, m.idf_scores, documents[i].text)]
    IN  Store(st.vectors \o new, st.metadata \o documents,
              m.vocabulary, m.idf_scores, m.fitted)

SimScale == 100

RECURSIVE Gcd(_, _)
Gcd(a, b) == IF b = 0 THEN a ELSE Gcd(b, a % b)

\* The gcd of the weights of a vector, 0 for an empty or all-zero vector.
RECURSIVE VecGcd(_)
VecGcd(vec) ==
    IF vec = <<>> THEN 0
    ELSE IF Len(vec) = 1 THEN vec[1]
    ELSE Gcd(Head(vec), VecGcd(Tail(vec)))

\* _cosine_similarity.  zip stops at the shorter vector; the magnitudes run
\* over each whole vector.  Every weight is >= 0, so the cosine is >= 0 and
\* is held as its square in units of 1/SimScale, which orders and ties the
\* same way.  Dividing a vector by the gcd of its weights leaves the cosine
\* as it is; dot product and magnitudes are taken in those smallest integers.
CosineSimilarity(vec1, vec2) ==
    LET g1 == VecGcd(vec1)
        g2 == VecGcd(vec2)
        n == Min(Len(vec1), Len(vec2))
    IN  IF g1 = 0 \/ g2 = 0
        THEN 0
        ELSE LET dot_product ==
                     SumSeq([i \in 1..n |-> vec1[i] * vec2[i]]) \div (g1 * g2)
                 magnitude1 ==
                     SumSeq([i \in DOMAIN vec1 |-> vec1[i] * vec1[i]]) \div (g1 * g1)
                 magnitude2 ==
                     SumSeq([i \in DOMAIN vec2 |-> vec2[i] * vec2[i]]) \div (g2 * g2)
             IN  (SimScale * dot_product * dot_product) \div (magnitude1 * magnitude2)

\* Tuple order of (similarity, idx) pairs.
PairLess(a, b) == a[1] < b[1] \/ (a[1] = b[1] /\ a[2] < b[2])

\* similarities.sort(reverse=True): the pairs, largest tuple first.
RECURSIVE SortReverse(_)
SortReverse(S) ==
    IF S = {}
    THEN <<>>
    ELSE LET top == CHOOSE p \in S : \A q \in S : q = p \/ PairLess(q, p)
         IN  <<top>> \o SortReverse(S \ {top})

\* seq[:k] of Python: the first k items, and for k < 0 all but the last -k.
SliceTo(seq, k) ==
    LET stop == IF k >= 0 THEN Min(k, Len(seq)) ELSE Max(Len(seq) + k, 0)
    IN  SubSeq(seq, 1, stop)

\* The loop over self.vectors, the sort and the slice of similarity_search:
\* the (similarity, idx) pairs of the rows returned, idx 0-based.
RankRows(vecs, query_vector, k) ==
    SliceTo(SortReverse({<<CosineSimilarity(query_vector, vecs[i]), i - 1>> :
                            i \in DOMAIN vecs}), k)

\* The result loop of similarity_search: self.metadata[idx].copy() with its
\* similarity, IndexError when a row has no metadata.  rows lists the row ids
\* behind results.
CollectResults(meta, top) ==
    IF \E j \in DOMAIN top : top[j][2] >= Len(meta)
    THEN [error |-> "IndexError", results |-> <<>>, rows |-> <<>>]
    ELSE [error |-> "none",
          results |-> [j \in DOMAIN top |->
              [text |-> meta[top[j][2] + 1].text,
               source |-> meta[top[j][2] + 1].source,
               chunk_id |-> meta[top[j][2] + 1].chunk_id,
               similarity |-> top[j][1]]],
          rows |-> [j \in DOMAIN top |-> top[j][2]]]

\* similarity_search.
SimilaritySearch(st, query, k) ==
    IF st.vectors = <<>>
    THEN [error |-> "none", results |-> <<>>, rows |-> <<>>]
    ELSE LET q == Transform(st.vocabulary, st.idf_scores, st.fitted, query)
         IN  IF q.error # "none"
             THEN [error |-> q.error, results |-> <<>>, rows |-> <<>>]
             ELSE CollectResults(st.metadata, RankRows(st.vectors, q.vector, k))

(***************************************************************************)
(* The snapshot file at vector_store_path.  A file is absent, or holds     *)
(* bytes pickle cannot decode, or holds a pickled dict; a dict written by  *)
(* another hand may lack keys.                                             *)
(***************************************************************************)
\* The keys load reads, in the order it reads them.
LoadOrder == <<"vectors", "metadata", "embeddings_model", "vocabulary", "idf_scores", "fitted">>

NoFile == [exists |-> FALSE, decodable |-> FALSE, keys |-> {}, data |-> FreshStore]

\* The file is a snapshot load can read in full.
IntactFile(f) == f.exists /\ f.decodable /\ f.keys = Range(LoadOrder)

\* What open(filepath, 'wb') leaves when pickle.dump does not complete.
TruncatedFile == [exists |-> TRUE, decodable |-> FALSE, keys |-> {}, data |-> FreshStore]

\* save with the 'idf_scores' entry left out of the dict.
SaveWithoutIdf(st) ==
    [exists |-> TRUE, decodable |-> TRUE,
     keys |-> Range(LoadOrder) \ {"idf_scores"}, data |-> st]

\* save: the dict of the five fields, pickled.
Save(st) == [exists |-> TRUE, decodable |-> TRUE, keys |-> Range(LoadOrder), data |-> st]

\* load: open, pickle.load, then one assignment per key in LoadOrder; the
\* first missing key raises KeyError with the earlier assignments done.
Load(st, f) ==
    IF ~f.exists THEN [error |-> "FileNotFoundError", store |-> st]
    ELSE IF ~f.decodable THEN [error |-> "UnpicklingError", store |-> st]  \* or EOFError
    ELSE LET missing == {i \in DOMAIN LoadOrder : LoadOrder[i] \notin f.keys}
             stop == IF missing = {} THEN Len(LoadOrder) + 1
                     ELSE CHOOSE i \in missing : \A j \in missing : i <= j
             read(key) == \E i \in 1..(stop - 1) : LoadOrder[i] = key
         IN  [error |-> IF missing = {} THEN "none" ELSE "KeyError",
              store |-> Store(
                  IF read("vectors") THEN f.data.vectors ELSE st.vectors,
                  IF read("metadata") THEN f.data.metadata ELSE st.metadata,
                  IF read("vocabulary") THEN f.data.vocabulary ELSE st.vocabulary,
                  IF read("idf_scores") THEN f.data.idf_scores ELSE st.idf_scores,
                  IF read("fitted") THEN f.data.fitted ELSE st.fitted)]

(***************************************************************************)
(* RoleFilter.  Strings it rewrites are sequences of characters.           *)
(***************************************************************************)
role_permissions ==
    [r \in {"admin", "manager", "employee", "public"} |->
        [all_documents |-> r \in {"admin", "manager"}, sensitive_info |-> r = "admin"]]

document_restrictions ==
    [s \in {"cybersecurity.txt", "cloud_devops.txt"} |->
        IF s = "cybersecurity.txt" THEN <<"admin", "manager">>
        ELSE <<"admin", "manager", "employee">>]

\* The roles a caller may assert: the four known ones and unknown strings.
RoleInputs == DOMAIN role_permissions \cup {"Admin", "guest"}

\* The remapping with the role lower-cased before the lookup.
NormalizeRoleFolded(user_role) ==
    IF user_role = "Admin" THEN "admin"
    ELSE IF user_role \notin DOMAIN role_permissions THEN "public" ELSE user_role

\* The remapping both filters start with.
NormalizeRole(user_role) ==
    IF user_role \notin DOMAIN role_permissions THEN "public" ELSE user_role

\* filter_documents looking sources up under a key no chunk has, so that every
\* source gets the default allow-list.
FilterDocumentsUnrestricted(documents, user_role) ==
    LET role == NormalizeRole(user_role)
        keep(doc) == role \in {"admin", "manager", "employee", "public"}
    IN  IF role_permissions[role].all_documents
        THEN documents
        ELSE SelectSeq(documents, keep)

\* filter_documents.
FilterDocuments(documents, user_role) ==
    LET role == NormalizeRole(user_role)
        allowed_roles(doc) ==
            IF doc.source \in DOMAIN document_restrictions
            THEN Range(document_restrictions[doc.source])
            ELSE {"admin", "manager", "employee", "public"}
        keep(doc) == role \in allowed_roles(doc)
    IN  IF role_permissions[role].all_documents
        THEN documents
        ELSE SelectSeq(documents, keep)

LowerLetters ==
    <<"a", "b", "c", "d", "e", "f", "g", "h", "i", "j", "k", "l", "m", "n", "o", "p",
      "q", "r", "s", "t", "u", "v", "w", "x", "y", "z">>

UpperLetters ==
    <<"A", "B", "C", "D", "E", "F", "G", "H", "I", "J", "K", "L", "M", "N", "O", "P",
      "Q", "R", "S", "T", "U", "V", "W", "X", "Y", "Z">>

\* c.lower() and c.upper() for one character.
CharLower ==
    [c \in Range(UpperLetters) |->
        LowerLetters[CHOOSE n \in DOMAIN UpperLetters : UpperLetters[n] = c]]

CharUpper ==
    [c \in Range(LowerLetters) |->
        UpperLetters[CHOOSE n \in DOMAIN LowerLetters : LowerLetters[n] = c]]

\* s.lower()
StrLower(s) ==
    [i \in DOMAIN s |-> IF s[i] \in DOMAIN CharLower THEN CharLower[s[i]] ELSE s[i]]

\* s.upper()
StrUpper(s) ==
    [i \in DOMAIN s |-> IF s[i] \in DOMAIN CharUpper THEN CharUpper[s[i]] ELSE s[i]]

\* sub occurs in s at position i.
OccursAt(s, sub, i) ==
    i + Len(sub) - 1 <= Len(s) /\ SubSeq(s, i, i + Len(sub) - 1) = sub

\* `sub in s` of Python.
StrContains(s, sub) == \E i \in 1..(Len(s) + 1) : OccursAt(s, sub, i)

\* s.replace(old, new, 1): the leftmost occurrence only.
StrReplaceOnce(s, old, new) ==
    LET at == {i \in 1..(Len(s) - Len(old) + 1) : OccursAt(s, old, i)}
    IN  IF at = {} THEN s
        ELSE LET first == CHOOSE i \in at : \A j \in at : i <= j
             IN  SubSeq(s, 1, first - 1) \o new \o SubSeq(s, first + Len(old), Len(s))

\* s.replace(old, new) for a non-empty old: leftmost occurrences, not overlapping.
RECURSIVE StrReplace(_, _, _)
StrReplace(s, old, new) ==
    LET at == {i \in 1..(Len(s) - Len(old) + 1) : OccursAt(s, old, i)}
    IN  IF at = {} THEN s
        ELSE LET first == CHOOSE i \in at : \A j \in at : i <= j
             IN  SubSeq(s, 1, first - 1) \o new \o
                     StrReplace(SubSeq(s, first + Len(old), Len(s)), old, new)

sensitive_keywords ==
    <<
    <<"s", "e", "c", "u", "r", "i", "t", "y">>,
    <<"p", "a", "s", "s", "w", "o", "r", "d">>,
    <<"e", "n", "c", "r", "y", "p", "t", "i", "o", "n">>,
    <<"v", "u", "l", "n", "e", "r", "a", "b", "i", "l", "i", "t", "y">>,
    <<"a", "t", "t", "a", "c", "k">>,
    <<"p", "e", "n", "e", "t", "r", "a", "t", "i", "o", "n">>,
    <<"f", "i", "r", "e", "w", "a", "l", "l">>,
    <<"i", "n", "t", "r", "u", "s", "i", "o", "n">>
    >>

\* f"[{keyword.upper()}_INFO_RESTRICTED]"
RestrictedMarker(keyword) ==
    <<"[">> \o StrUpper(keyword) \o
    <<"_", "I", "N", "F", "O", "_", "R", "E", "S", "T", "R", "I", "C", "T", "E", "D",
      "]">>

Disclaimer ==
    <<"\n", "\n", "[", "N", "o", "t", "e", ":", " ", "S", "o", "m", "e", " ", "s",
      "e", "n", "s", "i", "t", "i", "v", "e", " ", "i", "n", "f", "o", "r", "m", "a",
      "t", "i", "o", "n", " ", "h", "a", "s", " ", "b", "e", "e", "n", " ", "f", "i",
      "l", "t", "e", "r", "e", "d", " ", "b", "a", "s", "e", "d", " ", "o", "n", " ",
      "y", "o", "u", "r", " ", "a", "c", "c", "e", "s", "s", " ", "l", "e", "v", "e",
      "l", ".", "]">>

\* The loop of filter_response over sensitive_keywords[n..].
RECURSIVE RedactFrom(_, _)
RedactFrom(text, n) ==
    IF n > Len(sensitive_keywords) THEN text
    ELSE LET keyword == sensitive_keywords[n]
         IN  RedactFrom(
                 IF StrContains(StrLower(text), StrLower(keyword))
                 THEN StrReplace(text, keyword, RestrictedMarker(keyword))
                 ELSE text,
                 n + 1)

\* filter_response with the disclaimer added whenever a keyword matched.
FilterResponseNoted(response, user_role) ==
    LET role == NormalizeRole(user_role)
        matched == \E n \in DOMAIN sensitive_keywords :
                       StrContains(StrLower(response), StrLower(sensitive_keywords[n]))
    IN  IF role_permissions[role].sensitive_info
        THEN response
        ELSE IF matched
             THEN RedactFrom(response, 1) \o Disclaimer
             ELSE response

\* filter_response.
FilterResponse(response, user_role) ==
    LET role == NormalizeRole(user_role)
    IN  IF role_permissions[role].sensitive_info
        THEN response
        ELSE LET filtered_response == RedactFrom(response, 1)
             IN  IF filtered_response # response
                 THEN filtered_response \o Disclaimer
                 ELSE filtered_response

(***************************************************************************)
(* The answer-generation collaborator (LLMManager.generate_response).      *)
(***************************************************************************)
PlainAnswer ==
    <<"S", "e", "e", " ", "d", "o", "c", "s">>

SensitiveAnswer ==
    <<"A", "n", " ", "a", "t", "t", "a", "c", "k">>

\* What the collaborator can do with a call: answer, or fail.
LLMReplies == {"plain", "sensitive", "fail"}

\* The text of a reply.
AnswerText(reply) == IF reply = "sensitive" THEN SensitiveAnswer ELSE PlainAnswer

\* sources = list(set(chunk['source'] for chunk in context_chunks))
SourcesOf(context_chunks) == {context_chunks[i].source : i \in DOMAIN context_chunks}

(***************************************************************************)
(* AIQuerySystem.query.  An outcome records what one call did: the error   *)
(* it raised, the steps it reached and what it returned.                   *)
(***************************************************************************)
NoAccessibleInfo ==
    <<"I", " ", "c", "o", "u", "l", "d", "n", "'", "t", " ", "f", "i", "n", "d", " ",
      "a", "n", "y", " ", "r", "e", "l", "e", "v", "a", "n", "t", " ", "i", "n", "f",
      "o", "r", "m", "a", "t", "i", "o", "n", " ", "i", "n", " ", "t", "h", "e", " ",
      "d", "o", "c", "u", "m", "e", "n", "t", "s", " ", "a", "c", "c", "e", "s", "s",
      "i", "b", "l", "e", " ", "t", "o", " ", "y", "o", "u", "r", " ", "r", "o", "l",
      "e", ".">>

NoOutcome ==
    [op |-> "none", error |-> "none", question |-> <<>>, k |-> 0, role |-> "",
     searched |-> FALSE, filtered |-> FALSE, raw |-> <<>>, rows |-> <<>>,
     context |-> <<>>, llm_called |-> FALSE, llm_arg |-> <<>>,
     response |-> <<>>, sources |-> {}, context_chunks |-> 0]

\* The outcome of an operation that returns nothing.
OpOutcome(op, error) == [NoOutcome EXCEPT !.op = op, !.error = error]

\* query from the call of generate_response on: the collaborator gets
\* context_chunks, its answer goes through filter_response.
QueryGenerate(o, context_chunks, reply) ==
    LET called == [o EXCEPT !.llm_called = TRUE, !.llm_arg = context_chunks]
    IN  IF reply = "fail"
        THEN [called EXCEPT !.error = "LLMError"]
        ELSE [called EXCEPT
                !.response = FilterResponse(AnswerText(reply), o.role),
                !.sources = SourcesOf(context_chunks),
                !.context_chunks = Len(context_chunks)]

\* query without the `if not context_chunks` return.
QueryAnswerUnguarded(o, context_chunks, reply) == QueryGenerate(o, context_chunks, reply)

\* query from `if not context_chunks` on.
QueryAnswer(o, context_chunks, reply) ==
    IF context_chunks = <<>>
    THEN [o EXCEPT !.response = NoAccessibleInfo, !.sources = {}, !.context_chunks = 0]
    ELSE QueryGenerate(o, context_chunks, reply)

\* query without the reassignment: the search result goes on as it is.
QueryContextRaw(context_chunks, user_role) == context_chunks

\* The reassignment context_chunks = filter_documents(context_chunks, user_role).
QueryContext(context_chunks, user_role) == FilterDocuments(context_chunks, user_role)

\* query from the similarity search on.
QuerySearch(st, o, reply) ==
    LET s == SimilaritySearch(st, o.question, o.k)
        searched == [o EXCEPT !.searched = TRUE]
    IN  IF s.error # "none"
        THEN [searched EXCEPT !.error = s.error]
        ELSE LET context_chunks == QueryContext(s.results, o.role)
             IN  QueryAnswer(
                     [searched EXCEPT !.raw = s.results, !.rows = s.rows,
                                      !.filtered = TRUE, !.context = context_chunks],
                     context_chunks, reply)

\* query without the `if not self.initialized` check.
QueryUnchecked(st, init, question, top_k, user_role, reply) ==
    QuerySearch(st,
                [NoOutcome EXCEPT !.op = "query", !.question = question,
                                  !.k = top_k, !.role = user_role],
                reply)

\* query.
Query(st, init, question, top_k, user_role, reply) ==
    LET o == [NoOutcome EXCEPT !.op = "query", !.question = question,
                               !.k = top_k, !.role = user_role]
    IN  IF ~init
        THEN [o EXCEPT !.error = "RuntimeError"]
        ELSE QuerySearch(st, o, reply)

(***************************************************************************)
(* AIQuerySystem.initialize.                                               *)
(***************************************************************************)
\* How a save can end: written, open() refused, or pickle.dump cut short.
SaveFates == {"written", "open_fails", "dump_fails"}

\* The file after a save attempt.
SaveAttempt(st, f, fate) ==
    CASE fate = "written"    -> Save(st)
      [] fate = "open_fails" -> f
      [] fate = "dump_fails" -> TruncatedFile

\* initialize from "Process documents and build vector store" on.  has_dir:
\* the documents directory exists; chunks: what process_documents returns.
InitializeBuild(st, init, f, has_dir, chunks, v, fate) ==
    IF ~has_dir
    THEN [error |-> "FileNotFoundError", store |-> st, initialized |-> init, file |-> f]
    ELSE LET built == AddDocuments(st, chunks, v)
         IN  [error |-> IF fate = "written" THEN "none" ELSE "OSError",
              store |-> built,
              initialized |-> (init \/ fate = "written"),
              file |-> SaveAttempt(built, f, fate)]

\* initialize.
Initialize(st, init, f, force_rebuild, has_dir, chunks, v, fate) ==
    IF f.exists /\ ~force_rebuild
    THEN LET l == Load(st, f)
         IN  IF l.error = "none"
             THEN [error |-> "none", store |-> l.store, initialized |-> TRUE, file |-> f]
             ELSE InitializeBuild(l.store, init, f, has_dir, chunks, v, fate)
    ELSE InitializeBuild(st, init, f, has_dir, chunks, v, fate)

(***************************************************************************)
(* The state machine: one action per call, and the two things the          *)
(* environment does to the snapshot file.                                  *)
(***************************************************************************)
\* No rebuild or reload is under way.
WriterIdle ==
    [pc |-> "idle", documents |-> <<>>, v |-> EmptyVocabulary, data |-> FreshStore]

\* No search is under way.
ReaderIdle == [pc |-> "idle", question |-> <<>>, k |-> 0, query_vector |-> <<>>, top |-> <<>>]

\* No library function is under way.
NoCall == [op |-> "none"]

Init ==
    /\ vectors = FreshStore.vectors
    /\ metadata = FreshStore.metadata
    /\ vocabulary = FreshStore.vocabulary
    /\ idf_scores = FreshStore.idf_scores
    /\ fitted = FreshStore.fitted
    /\ initialized = FALSE
    /\ file = NoFile
    /\ outcome = NoOutcome
    /\ init_completed = FALSE
    /\ writer = WriterIdle
    /\ reader = ReaderIdle
    /\ call = NoCall

SetStore(st) ==
    /\ vectors' = st.vectors
    /\ metadata' = st.metadata
    /\ vocabulary' = st.vocabulary
    /\ idf_scores' = st.idf_scores
    /\ fitted' = st.fitted

StoreUnchanged == UNCHANGED <<vectors, metadata, vocabulary, idf_scores, fitted>>

\* The rows an initialize call would start its build from.
\* No call is under way: the last result has been handed to the caller.
Idle == outcome.op = "none" /\ call.op = "none"

Rows(st) == Max(Len(st.vectors), Len(st.metadata))

RowsBeforeBuild(force_rebuild) ==
    IF file.exists /\ ~force_rebuild
    THEN Rows(Load(CurrentStore, file).store)
    ELSE Rows(CurrentStore)

InitializeCall ==
    /\ Idle
    /\ \E force_rebuild, has_dir \in BOOLEAN, chunks \in Corpora, fate \in SaveFates :
       \E v \in VocabularyChoices(CorpusTokens(Texts(chunks))) :
        /\ RowsBeforeBuild(force_rebuild) + Len(chunks) <= MaxRows
        /\ ~has_dir => chunks = <<>> /\ fate = "written"
        /\ LET r == Initialize(CurrentStore, initialized, file, force_rebuild,
                               has_dir, chunks, v, fate)
           IN  /\ SetStore(r.store)
               /\ initialized' = r.initialized
               /\ file' = r.file
               /\ outcome' = OpOutcome("initialize", r.error)
               /\ init_completed' = (init_completed \/ r.error = "none")
               /\ UNCHANGED <<writer, reader, call>>

AddDocumentsCall ==
    /\ Idle
    /\ \E chunks \in Corpora :
       \E v \in VocabularyChoices(CorpusTokens(Texts(chunks))) :
        /\ Rows(CurrentStore) + Len(chunks) <= MaxRows
        /\ SetStore(AddDocuments(CurrentStore, chunks, v))
        /\ outcome' = OpOutcome("add_documents", "none")
        /\ UNCHANGED <<initialized, file, init_completed, writer, reader, call>>

SaveCall ==
    /\ Idle
    /\ \E fate \in SaveFates :
        /\ file' = SaveAttempt(CurrentStore, file, fate)
        /\ outcome' = OpOutcome("save", IF fate = "written" THEN "none" ELSE "OSError")
        /\ StoreUnchanged
        /\ UNCHANGED <<initialized, init_completed, writer, reader, call>>

LoadCall ==
    LET l == Load(CurrentStore, file)
    IN  /\ Idle
        /\ SetStore(l.store)
        /\ outcome' = OpOutcome("load", l.error)
        /\ UNCHANGED <<initialized, file, init_completed, writer, reader, call>>

TopKs == (0 - MaxK)..MaxK

SearchCall ==
    /\ Idle
    /\ \E question \in Questions, k \in TopKs :
        LET s == SimilaritySearch(CurrentStore, question, k)
        IN  /\ outcome' = [OpOutcome("search", s.error) EXCEPT
                              !.question = question, !.k = k, !.searched = TRUE,
                              !.raw = s.results, !.rows = s.rows]
            /\ StoreUnchanged
            /\ UNCHANGED <<initialized, file, init_completed, writer, reader, call>>

QueryCall ==
    /\ Idle
    /\ \E question \in Questions, top_k \in TopKs, user_role \in RoleInputs,
          reply \in LLMReplies :
        /\ outcome' = Query(CurrentStore, initialized, question, top_k, user_role, reply)
        /\ StoreUnchanged
        /\ UNCHANGED <<initialized, file, init_completed, writer, reader, call>>

\* The snapshot is damaged on disk: garbled, or rewritten without one key.
FileCorrupted ==
    /\ Idle
    /\ IntactFile(file)
    /\ \/ file' = [file EXCEPT !.decodable = FALSE]
       \/ \E key \in Range(LoadOrder) : file' = [file EXCEPT !.keys = @ \ {key}]
    /\ StoreUnchanged
    /\ UNCHANGED <<initialized, outcome, init_completed, writer, reader, call>>

\* The snapshot is deleted.
FileRemoved ==
    /\ Idle
    /\ file.exists
    /\ file' = NoFile
    /\ StoreUnchanged
    /\ UNCHANGED <<initialized, outcome, init_completed, writer, reader, call>>

\* The caller takes the result of the call; the next call can start.
ResultReturned ==
    /\ ~Idle
    /\ outcome' = NoOutcome
    /\ StoreUnchanged
    /\ UNCHANGED <<initialized, file, init_completed, writer, reader, call>>

\* The query system as its callers drive it.
Next ==
    \/ InitializeCall
    \/ QueryCall
    \/ ResultReturned
    \/ FileCorrupted
    \/ FileRemoved

Spec == Init /\ [][Next]_vars

\* The vector store driven directly through its own methods.
NextStore ==
    \/ AddDocumentsCall
    \/ SaveCall
    \/ LoadCall
    \/ SearchCall
    \/ ResultReturned
    \/ FileCorrupted
    \/ FileRemoved

SpecStore == Init /\ [][NextStore]_vars

(***************************************************************************)
(* One store shared by two threads: a writer inside add_documents or load, *)
(* a reader inside similarity_search.  A step is one statement that reads  *)
(* or writes a field of the store; the interpreter may switch threads      *)
(* between any two.                                                        *)
(***************************************************************************)
ConcFrame == UNCHANGED <<initialized, init_completed, call>>

\* add_documents is entered with the chunks of a rebuild.
RebuildStart ==
    \E chunks \in Corpora :
    \E v \in VocabularyChoices(CorpusTokens(Texts(chunks))) :
        /\ writer.pc = "idle"
        /\ Rows(CurrentStore) + Len(chunks) <= MaxRows
        /\ writer' = [writer EXCEPT !.pc = "fit_vocabulary", !.documents = chunks, !.v = v]
        /\ StoreUnchanged
        /\ UNCHANGED <<file, outcome, reader>>
        /\ ConcFrame

\* fit: self.vocabulary = {...}
FitVocabulary ==
    /\ writer.pc = "fit_vocabulary"
    /\ vocabulary' = writer.v
    /\ writer' = [writer EXCEPT !.pc = "fit_idf"]
    /\ UNCHANGED <<vectors, metadata, idf_scores, fitted, file, outcome, reader>>
    /\ ConcFrame

\* fit: self.idf_scores = self._compute_idf(documents)
FitIdf ==
    /\ writer.pc = "fit_idf"
    /\ idf_scores' = ComputeIdf(Texts(writer.documents))
    /\ writer' = [writer EXCEPT !.pc = "fit_fitted"]
    /\ UNCHANGED <<vectors, metadata, vocabulary, fitted, file, outcome, reader>>
    /\ ConcFrame

\* fit: self.fitted = True
FitFitted ==
    /\ writer.pc = "fit_fitted"
    /\ fitted' = TRUE
    /\ writer' = [writer EXCEPT !.pc = "extend_vectors"]
    /\ UNCHANGED <<vectors, metadata, vocabulary, idf_scores, file, outcome, reader>>
    /\ ConcFrame

\* The transforms of fit_transform, then self.vectors.extend(vectors).
ExtendVectors ==
    /\ writer.pc = "extend_vectors"
    /\ vectors' = vectors \o
           [i \in DOMAIN writer.documents |->
               TransformVector(vocabulary, idf_scores, writer.documents[i].text)]
    /\ writer' = [writer EXCEPT !.pc = "extend_metadata"]
    /\ UNCHANGED <<metadata, vocabulary, idf_scores, fitted, file, outcome, reader>>
    /\ ConcFrame

\* self.metadata.extend(documents)
ExtendMetadata ==
    /\ writer.pc = "extend_metadata"
    /\ metadata' = metadata \o writer.documents
    /\ writer' = [writer EXCEPT !.pc = "save"]
    /\ UNCHANGED <<vectors, vocabulary, idf_scores, fitted, file, outcome, reader>>
    /\ ConcFrame

\* initialize saves what it built.
RebuildSave ==
    /\ writer.pc = "save"
    /\ file' = Save(CurrentStore)
    /\ writer' = WriterIdle
    /\ StoreUnchanged
    /\ UNCHANGED <<outcome, reader>>
    /\ ConcFrame

\* load: the snapshot is read and unpickled.
ReloadStart ==
    /\ writer.pc = "idle"
    /\ IntactFile(file)
    /\ writer' = [writer EXCEPT !.pc = LoadOrder[1], !.data = file.data]
    /\ StoreUnchanged
    /\ UNCHANGED <<file, outcome, reader>>
    /\ ConcFrame

\* load: the assignment for the key the writer stands at.
ReloadAssign ==
    \E n \in DOMAIN LoadOrder :
        /\ writer.pc = LoadOrder[n]
        /\ vectors' = IF writer.pc = "vectors" THEN writer.data.vectors ELSE vectors
        /\ metadata' = IF writer.pc = "metadata" THEN writer.data.metadata ELSE metadata
        /\ vocabulary' = IF writer.pc = "vocabulary" THEN writer.data.vocabulary ELSE vocabulary
        /\ idf_scores' = IF writer.pc = "idf_scores" THEN writer.data.idf_scores ELSE idf_scores
        /\ fitted' = IF writer.pc = "fitted" THEN writer.data.fitted ELSE fitted
        /\ writer' = IF n = Len(LoadOrder) THEN WriterIdle
                     ELSE [writer EXCEPT !.pc = LoadOrder[n + 1]]
        /\ UNCHANGED <<file, outcome, reader>>
        /\ ConcFrame

\* similarity_search is entered: `if not self.vectors: return []`.
SearchStart ==
    \E question \in Questions, k \in TopKs :
        /\ reader.pc = "idle"
        /\ IF vectors = <<>>
           THEN /\ outcome' = [OpOutcome("search", "none") EXCEPT
                                  !.question = question, !.k = k, !.searched = TRUE]
                /\ UNCHANGED reader
           ELSE /\ reader' = [reader EXCEPT !.pc = "transform", !.question = question, !.k = k]
                /\ UNCHANGED outcome
        /\ StoreUnchanged
        /\ UNCHANGED <<file, writer>>
        /\ ConcFrame

\* query_vector = self.embeddings_model.transform(query)
SearchTransform ==
    /\ reader.pc = "transform"
    /\ LET q == Transform(vocabulary, idf_scores, fitted, reader.question)
       IN  IF q.error # "none"
           THEN /\ outcome' = [OpOutcome("search", q.error) EXCEPT
                                  !.question = reader.question, !.k = reader.k,
                                  !.searched = TRUE]
                /\ reader' = ReaderIdle
           ELSE /\ reader' = [reader EXCEPT !.pc = "scan", !.query_vector = q.vector]
                /\ UNCHANGED outcome
    /\ StoreUnchanged
    /\ UNCHANGED <<file, writer>>
    /\ ConcFrame

\* The loop over self.vectors, the sort and the slice.
SearchScan ==
    /\ reader.pc = "scan"
    /\ reader' = [reader EXCEPT !.pc = "collect",
                                !.top = RankRows(vectors, reader.query_vector, reader.k)]
    /\ StoreUnchanged
    /\ UNCHANGED <<file, outcome, writer>>
    /\ ConcFrame

\* The loop over self.metadata[idx], and the return.
SearchCollect ==
    /\ reader.pc = "collect"
    /\ LET c == CollectResults(metadata, reader.top)
       IN  outcome' = [OpOutcome("search", c.error) EXCEPT
                          !.question = reader.question, !.k = reader.k,
                          !.searched = TRUE, !.raw = c.results, !.rows = c.rows]
    /\ reader' = ReaderIdle
    /\ StoreUnchanged
    /\ UNCHANGED <<file, writer>>
    /\ ConcFrame

NextConc ==
    \/ RebuildStart
    \/ FitVocabulary
    \/ FitIdf
    \/ FitFitted
    \/ ExtendVectors
    \/ ExtendMetadata
    \/ RebuildSave
    \/ ReloadStart
    \/ ReloadAssign
    \/ SearchStart
    \/ SearchTransform
    \/ SearchScan
    \/ SearchCollect

SpecConc == Init /\ [][NextConc]_vars

(***************************************************************************)
(* RoleFilter called on its own: filter_documents and filter_response over *)
(* chunk lists, texts and role strings of the caller's choosing.           *)
(***************************************************************************)
MaxFragments == 2   \* fragments a text handed to filter_response is made of

\* The role strings a caller may pass: RoleInputs and the empty string.
RoleStrings == RoleInputs \cup {""}

PasswordsSentence ==
    <<"P", "a", "s", "s", "w", "o", "r", "d", "s", " ", "m", "u", "s", "t",
      " ", "b", "e", " ", "e", "n", "c", "r", "y", "p", "t", "e", "d", ".">>

\* The pieces the response texts are put together from.
ResponseFragments ==
    { PasswordsSentence, PlainAnswer, SensitiveAnswer, sensitive_keywords[2], <<" ">>,
      sensitive_keywords[1],
      SubSeq(sensitive_keywords[2], 1, 4), SubSeq(sensitive_keywords[2], 5, 8) }

RECURSIVE Concat(_)
Concat(ss) == IF ss = <<>> THEN <<>> ELSE Head(ss) \o Concat(Tail(ss))

ResponseTexts == {Concat(fs) : fs \in SeqsUpTo(ResponseFragments, MaxFragments)}

CallFrame ==
    /\ StoreUnchanged
    /\ UNCHANGED <<initialized, file, outcome, init_completed, writer, reader>>

FilterDocumentsCall ==
    /\ Idle
    /\ \E documents \in SeqsUpTo(ChunkPool, MaxChunks), user_role \in RoleStrings :
        /\ call' = [op |-> "filter_documents", documents |-> documents,
                    role |-> user_role,
                    result |-> FilterDocuments(documents, user_role)]
        /\ CallFrame

FilterResponseCall ==
    /\ Idle
    /\ \E response \in ResponseTexts, user_role \in RoleStrings :
        /\ call' = [op |-> "filter_response", text |-> response,
                    role |-> user_role,
                    result |-> FilterResponse(response, user_role)]
        /\ CallFrame

\* The caller takes the result of the library call.
CallReturned ==
    /\ call.op # "none"
    /\ call.op = "chunk_text" => call.pc = "done"
    /\ call' = NoCall
    /\ CallFrame

NextFilter ==
    \/ FilterDocumentsCall
    \/ FilterResponseCall
    \/ CallReturned

SpecFilter == Init /\ [][NextFilter]_vars

(***************************************************************************)
(* The worked example: a fresh store is given the one example chunk, and   *)
(* the example question is searched for with k = 1.                        *)
(***************************************************************************)
ExampleBuild ==
    /\ Idle
    /\ CurrentStore = FreshStore
    /\ \E v \in VocabularyChoices(CorpusTokens(Texts(<<ExampleChunk>>))) :
           SetStore(AddDocuments(CurrentStore, <<ExampleChunk>>, v))
    /\ outcome' = OpOutcome("add_documents", "none")
    /\ UNCHANGED <<initialized, file, init_completed, writer, reader, call>>

ExampleSearch ==
    LET s == SimilaritySearch(CurrentStore, ExampleQuestion, 1)
    IN  /\ Idle
        /\ outcome' = [OpOutcome("search", s.error) EXCEPT
                          !.question = ExampleQuestion, !.k = 1, !.searched = TRUE,
                          !.raw = s.results, !.rows = s.rows]
        /\ StoreUnchanged
        /\ UNCHANGED <<initialized, file, init_completed, writer, reader, call>>

NextExample ==
    \/ ExampleBuild
    \/ ExampleSearch
    \/ ResultReturned

SpecExample == Init /\ [][NextExample]_vars

(***************************************************************************)
(* DocumentProcessor.chunk_text.  A text is a sequence of characters,      *)
(* positions are counted from 0 as in the code.  One step of the model is  *)
(* the entry of the function, one pass of its while loop, or the loop exit. *)
(***************************************************************************)
MaxTextLen == 4     \* characters of a text handed to chunk_text
MaxChunkSize == 3   \* largest chunk_size; the smallest is 0
MaxOverlap == 3     \* largest overlap; the smallest is -1

ChunkAlphabet == {"a", " ", ".", "?", "!"}

ChunkTexts == SeqsUpTo(ChunkAlphabet, MaxTextLen)

ChunkSizes == 0..MaxChunkSize

Overlaps == (0 - 1)..MaxOverlap

\* Passes of the loop the model follows before it gives a call up.
MaxIterations == MaxTextLen + 2

\* s.strip() for the whitespace of ChunkAlphabet.
RECURSIVE Strip(_)
Strip(s) ==
    IF s = <<>> THEN s
    ELSE IF Head(s) = " " THEN Strip(Tail(s))
    ELSE IF s[Len(s)] = " " THEN Strip(SubSeq(s, 1, Len(s) - 1))
    ELSE s

\* text.rfind(c, start, end) for 0 <= start: the last position in
\* [start, min(end, len(text))) that holds c, -1 when there is none.
Rfind(text, c, start, end) ==
    LET at == {i \in start..(Min(end, Len(text)) - 1) : text[i + 1] = c}
    IN  IF at = {} THEN 0 - 1 ELSE CHOOSE i \in at : \A j \in at : j <= i

\* text[start:end] for 0 <= start.
Slice(text, start, end) == SubSeq(text, start + 1, Min(end, Len(text)))

\* One pass of the while loop from `start`: the chunk cut, where it ends and
\* where the next pass starts.
ChunkPass(text, chunk_size, overlap, start) ==
    LET full == start + chunk_size
        best_break == Max(Rfind(text, ".", start, full),
                          Max(Rfind(text, "?", start, full),
                              Rfind(text, "!", start, full)))
        end == IF full < Len(text) /\ best_break > start THEN best_break + 1 ELSE full
    IN  [chunk |-> Strip(Slice(text, start, end)),
         end |-> end,
         start |-> IF end - overlap <= start THEN end ELSE end - overlap]

ChunkTextCall ==
    /\ Idle
    /\ \E text \in ChunkTexts, chunk_size \in ChunkSizes, overlap \in Overlaps :
           call' = [op |-> "chunk_text", text |-> text, chunk_size |-> chunk_size,
                    overlap |-> overlap,
                    pc |-> IF Len(text) <= chunk_size THEN "done" ELSE "loop",
                    start |-> 0, end |-> 0, iterations |-> 0,
                    chunks |-> IF Len(text) <= chunk_size THEN <<text>> ELSE <<>>]
    /\ CallFrame

ChunkWindow ==
    /\ call.op = "chunk_text" /\ call.pc = "loop"
    /\ call.start < Len(call.text)
    /\ call.iterations < MaxIterations
    /\ LET p == ChunkPass(call.text, call.chunk_size, call.overlap, call.start)
       IN  call' = [call EXCEPT
                       !.chunks = IF p.chunk # <<>> THEN Append(@, p.chunk) ELSE @,
                       !.start = p.start,
                       !.end = p.end,
                       !.iterations = @ + 1]
    /\ CallFrame

ChunkLoopExit ==
    /\ call.op = "chunk_text" /\ call.pc = "loop"
    /\ call.start >= Len(call.text)
    /\ call' = [call EXCEPT !.pc = "done"]
    /\ CallFrame

NextChunk ==
    \/ ChunkTextCall
    \/ ChunkWindow
    \/ ChunkLoopExit
    \/ CallReturned

SpecChunk == Init /\ [][NextChunk]_vars

(***************************************************************************)
(* SimpleEmbeddings called on its own (fit, transform, fit_transform),     *)
(* beside add_documents and similarity_search of the store that owns it.   *)
(***************************************************************************)
\* The corpora fit and fit_transform are given.
TextCorpora == SeqsUpTo({c.text : c \in ChunkPool}, MaxChunks)

\* The texts transform is given.
TransformTexts == Questions \cup {c.text : c \in ChunkPool} \cup {<<>>}

CurrentModel == [vocabulary |-> vocabulary, idf_scores |-> idf_scores, fitted |-> fitted]

SetModel(m) ==
    /\ vocabulary' = m.vocabulary
    /\ idf_scores' = m.idf_scores
    /\ fitted' = m.fitted

\* fit_transform with the vectors weighted by an empty IDF table.
FitTransformUnweighted(documents, v) ==
    LET m == Fit(documents, v)
    IN  [model |-> m,
         vectors |-> [i \in DOMAIN documents |->
                         TransformVector(m.vocabulary, EmptyVocabulary, documents[i])]]

\* fit_transform: fit, then transform of every document under the new model.
FitTransform(documents, v) ==
    LET m == Fit(documents, v)
    IN  [model |-> m,
         vectors |-> [i \in DOMAIN documents |->
                         Transform(m.vocabulary, m.idf_scores, m.fitted,
                                   documents[i]).vector]]

FitCall ==
    /\ Idle
    /\ \E documents \in TextCorpora :
       \E v \in VocabularyChoices(CorpusTokens(documents)) :
           /\ SetModel(Fit(documents, v))
           /\ call' = [op |-> "fit", documents |-> documents]
    /\ UNCHANGED <<vectors, metadata, initialized, file, outcome, init_completed,
                   writer, reader>>

\* transform that fits the model on the text it is given.
TransformCallRefitting ==
    /\ Idle
    /\ \E text \in TransformTexts :
       \E v \in VocabularyChoices(CorpusTokens(<<text>>)) :
           LET m == Fit(<<text>>, v)
               t == Transform(m.vocabulary, m.idf_scores, m.fitted, text)
           IN  /\ SetModel(m)
               /\ call' = [op |-> "transform", text |-> text, error |-> t.error,
                           vector |-> t.vector]
    /\ UNCHANGED <<vectors, metadata, initialized, file, outcome, init_completed,
                   writer, reader>>

TransformCall ==
    /\ Idle
    /\ \E text \in TransformTexts :
           LET t == Transform(vocabulary, idf_scores, fitted, text)
           IN  call' = [op |-> "transform", text |-> text, error |-> t.error,
                        vector |-> t.vector]
    /\ CallFrame

FitTransformCall ==
    /\ Idle
    /\ \E documents \in TextCorpora :
       \E v \in VocabularyChoices(CorpusTokens(documents)) :
           LET ft == FitTransform(documents, v)
           IN  /\ SetModel(ft.model)
               /\ call' = [op |-> "fit_transform", documents |-> documents,
                           vectors |-> ft.vectors]
    /\ UNCHANGED <<vectors, metadata, initialized, file, outcome, init_completed,
                   writer, reader>>

NextVectorizer ==
    \/ FitCall
    \/ TransformCall
    \/ FitTransformCall
    \/ CallReturned
    \/ AddDocumentsCall
    \/ SearchCall
    \/ ResultReturned

SpecVectorizer == Init /\ [][NextVectorizer]_vars

(***************************************************************************)
(* Properties.                                                             *)
(***************************************************************************)
VocabularySize == Cardinality(DOMAIN vocabulary)

\* C1: after any sequence of initialize / load / add_documents calls, every
\* stored vector has the length of the current vocabulary and is the transform
\* of its row's text under the current vocabulary and IDF table.
C1_VectorsUnderCurrentModel ==
    \A i \in DOMAIN vectors :
        /\ Len(vectors[i]) = VocabularySize
        /\ i \in DOMAIN metadata =>
              vectors[i] = TransformVector(vocabulary, idf_scores, metadata[i].text)

\* The role a source's allow-list is consulted with may see the source: the
\* normalized role is in the list, and a source without a list is open.
MaySee(user_role, source) ==
    \/ NormalizeRole(user_role) \in {"admin", "manager"}
    \/ source \notin {"cybersecurity.txt", "cloud_devops.txt"}
    \/ source = "cloud_devops.txt" /\ NormalizeRole(user_role) = "employee"

\* C2: whenever query invokes the answer-generation collaborator, the chunks it
\* hands over are filterChunks(search(question, topK), role): none of them has
\* a source the role may not see, and the raw search result is not passed when
\* filtering changes it.
C2_CollaboratorGetsFilteredChunks ==
    (outcome.op = "query" /\ outcome.llm_called) =>
        LET s == SimilaritySearch(CurrentStore, outcome.question, outcome.k)
        IN  /\ s.error = "none"
            /\ outcome.llm_arg = FilterDocuments(s.results, outcome.role)
            /\ \A i \in DOMAIN outcome.llm_arg :
                   MaySee(outcome.role, outcome.llm_arg[i].source)
            /\ \A i \in DOMAIN s.results :
                   ~MaySee(outcome.role, s.results[i].source) => outcome.llm_arg # s.results

\* A query reached the collaborator after filtering dropped part of the search result.
C2_Witness ==
    /\ outcome.op = "query" /\ outcome.llm_called
    /\ outcome.llm_arg # <<>>
    /\ Len(outcome.llm_arg) < Len(outcome.raw)

\* C3: on an initialized system, when role filtering of the search result
\* leaves no chunk (the search result may itself be empty), query returns the
\* no-accessible-information result with no sources and never invokes the
\* collaborator.
C3_NothingVisibleNoCollaborator ==
    outcome.op = "query" =>
        LET s == SimilaritySearch(CurrentStore, outcome.question, outcome.k)
        IN  (initialized /\ s.error = "none"
                /\ FilterDocuments(s.results, outcome.role) = <<>>) =>
                /\ outcome.error = "none"
                /\ outcome.response = NoAccessibleInfo
                /\ outcome.sources = {}
                /\ ~outcome.llm_called

\* A query whose search found chunks, all of them removed by the role filter.
C3_Witness ==
    /\ outcome.op = "query" /\ outcome.error = "none"
    /\ outcome.raw # <<>> /\ outcome.context = <<>>
    /\ outcome.response = NoAccessibleInfo

\* C4: while no initialize call has returned normally, query raises its
\* not-initialized error, which is not the no-results answer, before any
\* search, role filtering or collaborator call.
C4_UninitializedQueryFailsFast ==
    (outcome.op = "query" /\ ~init_completed) =>
        /\ outcome.error = "RuntimeError"
        /\ outcome.response # NoAccessibleInfo
        /\ ~outcome.searched /\ ~outcome.filtered /\ ~outcome.llm_called

\* A query after an initialize call that built rows and then raised.
C4_Witness ==
    /\ outcome.op = "query" /\ ~init_completed
    /\ vectors # <<>>
    /\ outcome.error = "RuntimeError"

\* C5: a search under way never sees a partly updated index: at each of its
\* steps the store holds as many vectors as metadata entries, and every vector
\* has the length of the vocabulary the query was transformed under.
C5_SearchSeesWholeIndex ==
    reader.pc # "idle" =>
        /\ Len(vectors) = Len(metadata)
        /\ reader.pc \in {"scan", "collect"} =>
               \A i \in DOMAIN vectors : Len(vectors[i]) = Len(reader.query_vector)

\* C6: load on a missing or corrupt snapshot raises and leaves vectors,
\* metadata, vocabulary, IDF table and fitted flag as they were.
C6_FailedLoadLeavesIndex ==
    [][(outcome'.op = "load" /\ ~IntactFile(file)) =>
          /\ outcome'.error # "none"
          /\ <<vectors, metadata, vocabulary, idf_scores, fitted>>' =
                 <<vectors, metadata, vocabulary, idf_scores, fitted>>]_vars

\* C7: a snapshot just saved loads into a fresh store that equals the saved
\* one field by field and answers every search identically.
C7_SaveLoadRoundTrip ==
    (outcome.op = "save" /\ outcome.error = "none") =>
        LET l == Load(FreshStore, file)
        IN  /\ l.error = "none"
            /\ l.store.vectors = vectors
            /\ l.store.metadata = metadata
            /\ l.store.vocabulary = vocabulary
            /\ l.store.idf_scores = idf_scores
            /\ l.store.fitted = fitted
            /\ \A q \in Questions, k \in TopKs :
                   SimilaritySearch(l.store, q, k) = SimilaritySearch(CurrentStore, q, k)

\* A built index with a non-zero weight was saved.
C7_Witness ==
    /\ outcome.op = "save" /\ outcome.error = "none"
    /\ fitted
    /\ \E i \in DOMAIN vectors : \E c \in DOMAIN vectors[i] : vectors[i][c] > 0
    /\ \E q \in Questions :
           \E r \in Range(SimilaritySearch(CurrentStore, q, MaxK).results) : r.similarity > 0

\* C8: search results are in descending similarity, and of two results with
\* equal similarity the one with the smaller row id comes first.
C8_SortedTiesByInsertion ==
    (outcome.op = "search" /\ outcome.error = "none") =>
        \A i, j \in DOMAIN outcome.raw :
            i < j =>
                /\ outcome.raw[i].similarity >= outcome.raw[j].similarity
                /\ outcome.raw[i].similarity = outcome.raw[j].similarity =>
                       outcome.rows[i] < outcome.rows[j]

\* C9: search returns at most k and at most index-size results; for k <= 0 and
\* on an empty index it returns the empty result without error.
C9_AtMostKResults ==
    outcome.op = "search" =>
        /\ outcome.error = "none" =>
              /\ Len(outcome.raw) <= Max(outcome.k, 0)
              /\ Len(outcome.raw) <= Len(vectors)
        /\ (outcome.k <= 0 \/ vectors = <<>>) =>
              outcome.error = "none" /\ outcome.raw = <<>>

\* The allow-list of a source: its entry in the restriction table, and every
\* role for a source without one.
AllowList(source) ==
    IF source \in DOMAIN document_restrictions
    THEN Range(document_restrictions[source])
    ELSE RoleInputs

InAllowList(user_role, documents) ==
    [i \in DOMAIN documents |-> user_role \in AllowList(documents[i].source)]

\* The subsequence of s at the positions flagged in keep.
RECURSIVE Subsequence(_, _)
Subsequence(s, keep) ==
    IF s = <<>> THEN <<>>
    ELSE (IF keep[1] THEN <<s[1]>> ELSE <<>>) \o Subsequence(Tail(s), Tail(keep))

\* C10: filterChunks returns its input unchanged for admin and manager, and for
\* every other role the order-preserving subsequence of the chunks whose
\* source's allow-list holds the role (a source without a list allows all).
C10_FilterChunks ==
    (outcome.op = "query" /\ outcome.filtered) =>
        IF outcome.role \in {"admin", "manager"}
        THEN outcome.context = outcome.raw
        ELSE outcome.context =
                 Subsequence(outcome.raw, InAllowList(outcome.role, outcome.raw))

\* An unknown role got a proper, non-empty part of a search result.
C10_Witness ==
    /\ outcome.op = "query" /\ outcome.filtered
    /\ outcome.role \notin DOMAIN role_permissions
    /\ outcome.context # <<>>
    /\ Len(outcome.context) < Len(outcome.raw)

\* s ends with suffix.
EndsWith(s, suffix) ==
    Len(s) >= Len(suffix) /\ SubSeq(s, Len(s) - Len(suffix) + 1, Len(s)) = suffix

\* C11: for a role string that is not a key of the permission table (the empty
\* string and 'Admin' included), filter_documents and filter_response return
\* what they return for 'public' on the same input.
C11_UnknownRoleIsPublic ==
    call.op \in {"filter_documents", "filter_response"} =>
        (call.role \notin {"admin", "manager", "employee", "public"} =>
            IF call.op = "filter_documents"
            THEN call.result = FilterDocuments(call.documents, "public")
            ELSE call.result = FilterResponse(call.text, "public"))

\* The empty role string lost a restricted chunk of the list it passed.
C11_Witness ==
    /\ call.op = "filter_documents"
    /\ call.role = ""
    /\ \E i \in DOMAIN call.documents : call.documents[i].source = "cybersecurity.txt"
    /\ Len(call.result) < Len(call.documents)

\* C12: filter_response("Passwords must be encrypted.", "public") returns a
\* text in which "Passwords" and "encrypted" are replaced by markers, with the
\* disclaimer appended; with role "admin" the text comes back unchanged.
C12_PasswordsSentenceRedacted ==
    (call.op = "filter_response" /\ call.text = PasswordsSentence) =>
        /\ call.role = "public" =>
               /\ ~StrContains(call.result, SubSeq(PasswordsSentence, 1, 9))
               /\ ~StrContains(call.result, SubSeq(PasswordsSentence, 19, 27))
               /\ EndsWith(call.result, Disclaimer)
        /\ call.role = "admin" => call.result = call.text

\* C13: for every role, a text with no sensitive term (matched without regard
\* to case) comes back identical, and the disclaimer is appended only to a
\* text that a replacement changed.
C13_DisclaimerOnlyOnChange ==
    call.op = "filter_response" =>
        /\ (\A n \in DOMAIN sensitive_keywords :
                ~StrContains(StrLower(call.text), sensitive_keywords[n]))
               => call.result = call.text
        /\ call.result # call.text =>
               /\ EndsWith(call.result, Disclaimer)
               /\ SubSeq(call.result, 1, Len(call.result) - Len(Disclaimer)) # call.text

\* A public caller passed a text without any sensitive term.
C13_Witness ==
    /\ call.op = "filter_response"
    /\ call.role = "public"
    /\ call.text = PlainAnswer \o <<" ">>
    /\ call.result = call.text

\* C14: on an index built from the single example chunk, the search for
\* "firewall configuration" with k = 1 returns that chunk with a similarity
\* strictly greater than 0.
C14_ExampleFoundWithPositiveSimilarity ==
    (outcome.op = "search" /\ metadata = <<ExampleChunk>>) =>
        /\ outcome.error = "none"
        /\ Len(outcome.raw) = 1
        /\ outcome.raw[1].text = ExampleChunk.text
        /\ outcome.raw[1].source = ExampleChunk.source
        /\ outcome.raw[1].similarity > 0

\* C15: chunk_text terminates for every text, chunk_size and overlap: on
\* every pass of the loop the window start strictly increases.
C15_WindowStartIncreases ==
    [][(call.op = "chunk_text" /\ call'.op = "chunk_text"
            /\ call'.iterations = call.iterations + 1)
          => call'.start > call.start]_vars

\* C16: for a text no longer than chunk_size that is non-empty after trimming,
\* chunk_text returns exactly one element, the text with leading and trailing
\* whitespace removed.
C16_ShortTextOneTrimmedChunk ==
    (call.op = "chunk_text" /\ call.pc = "done"
         /\ Len(call.text) <= call.chunk_size /\ Strip(call.text) # <<>>)
       => call.chunks = <<Strip(call.text)>>

\* C17: every element chunk_text returns is non-empty after trimming, and a
\* text that is empty after trimming yields no chunk.
C17_NoEmptyChunk ==
    (call.op = "chunk_text" /\ call.pc = "done") =>
        /\ \A i \in DOMAIN call.chunks : Strip(call.chunks[i]) # <<>>
        /\ Strip(call.text) = <<>> => call.chunks = <<>>

\* C18: transform on a vectorizer that was never fitted fails with the
\* unfitted-model error and leaves vocabulary, IDF table and fitted flag as
\* they were; fit and fit_transform mark the model fitted, it stays fitted, and
\* transform on a fitted model does not raise.
C18_TransformNeedsFit ==
    [][/\ (call.op = "none" /\ call'.op = "transform") =>
              /\ ~fitted => /\ call'.error = "ValueError"
                            /\ <<vocabulary, idf_scores, fitted>>' =
                                   <<vocabulary, idf_scores, fitted>>
              /\ fitted => call'.error = "none"
       /\ (call.op = "none" /\ call'.op \in {"fit", "fit_transform"}) => fitted'
       /\ fitted => fitted']_vars

\* transform was called on a vectorizer that was never fitted.
C18_Witness ==
    /\ call.op = "transform"
    /\ call.error = "ValueError"
    /\ ~fitted

\* C19: fit_transform(corpus)[i] is the vector transform(corpus[i]) gives on
\* the model fit(corpus) leaves, and fit_transform leaves the model in a state
\* fit(corpus) alone leaves it in.
C19_FitTransformIsFitThenTransform ==
    call.op = "fit_transform" =>
        /\ Len(call.vectors) = Len(call.documents)
        /\ \A i \in DOMAIN call.documents :
               call.vectors[i] =
                   Transform(vocabulary, idf_scores, fitted, call.documents[i]).vector
        /\ \E v \in VocabularyChoices(CorpusTokens(call.documents)) :
               CurrentModel = Fit(call.documents, v)

\* fit_transform returned, for a corpus of two texts, a vector with a weight
\* that is not zero.
C19_Witness ==
    /\ call.op = "fit_transform"
    /\ Len(call.documents) = 2
    /\ \E i \in DOMAIN call.vectors : \E c \in DOMAIN call.vectors[i] :
           call.vectors[i][c] > 0

\* C20: transform and similarity_search leave vocabulary, IDF table, fitted
\* flag, stored vectors and stored metadata unchanged; the vector transform
\* returns has length |vocabulary| and is the one a further call with the
\* same text returns.
C20_TransformSearchChangeNothing ==
    [][((call.op = "none" /\ call'.op = "transform")
           \/ (outcome.op = "none" /\ outcome'.op = "search")) =>
          /\ <<vocabulary, idf_scores, fitted, vectors, metadata>>' =
                 <<vocabulary, idf_scores, fitted, vectors, metadata>>
          /\ (call'.op = "transform" /\ call'.error = "none") =>
                 /\ Len(call'.vector) = Cardinality(DOMAIN vocabulary')
                 /\ call'.vector =
                        Transform(vocabulary', idf_scores', fitted', call'.text).vector]_vars

\* transform returned a vector with a weight that is not zero while the store
\* held rows.
C20_Witness ==
    /\ call.op = "transform"
    /\ call.error = "none"
    /\ vectors # <<>>
    /\ \E c \in DOMAIN call.vector : call.vector[c] > 0

\* The right-most position of '.', '?' or '!' in [start, end) of the text, -1
\* when the window holds none.
LastBoundary(text, start, end) ==
    LET at == {i \in start..(Min(end, Len(text)) - 1) : text[i + 1] \in {".", "?", "!"}}
    IN  IF at = {} THEN 0 - 1 ELSE CHOOSE i \in at : \A j \in at : j <= i

\* C21: every window [start, start+chunk_size) the loop processes, the last
\* one (which reaches or passes the end of the text) included, ends at p+1
\* when its right-most '.', '?' or '!' is at a position p > start, and at
\* start+chunk_size otherwise (an end past the text is the end of the text).
C21_WindowEndsAtBoundary ==
    [][(call.op = "chunk_text" /\ call'.op = "chunk_text"
            /\ call'.iterations = call.iterations + 1)
          => LET p == LastBoundary(call.text, call.start, call.start + call.chunk_size)
             IN  Min(call'.end, Len(call.text)) =
                     Min(IF p > call.start THEN p + 1 ELSE call.start + call.chunk_size,
                         Len(call.text))]_vars

\* C22: in every state reached by initialize, load and add_documents the index
\* holds as many vectors as chunk-metadata entries and row i's vector is the
\* transform of row i's chunk text under the current model (which is what
\* keeps a search from pairing a similarity with another chunk).
C22_RowsAligned ==
    /\ Len(vectors) = Len(metadata)
    /\ \A i \in DOMAIN vectors \cap DOMAIN metadata :
           Transform(vocabulary, idf_scores, fitted, metadata[i].text) =
               [error |-> "none", vector |-> vectors[i]]

\* C23: for every role without sensitive_info (manager, employee, public and
\* every unknown role) and every text, the result of filter_response holds no
\* lower-case occurrence of a sensitive keyword: no replacement creates or
\* leaves behind an occurrence of its keyword or of one processed earlier.
C23_NoKeywordLeft ==
    (call.op = "filter_response"
         /\ call.role \notin {r \in DOMAIN role_permissions : role_permissions[r].sensitive_info})
       => \A n \in DOMAIN sensitive_keywords :
              ~StrContains(call.result, sensitive_keywords[n])

\* A manager's text with one keyword twice, a later keyword before an earlier
\* one, or a keyword inside the two halves of itself.
C23_Witness ==
    /\ call.op = "filter_response"
    /\ call.role = "manager"
    /\ call.text \in { sensitive_keywords[2] \o sensitive_keywords[2],
                       sensitive_keywords[2] \o sensitive_keywords[1] }
    /\ call.result # call.text
    /\ StrContains(call.result, RestrictedMarker(sensitive_keywords[2]))

====
